---- MODULE Spec2Model ----
(***************************************************************************)
(* Model of generate_yukkuri.py: one run of main(), from the state right   *)
(* after argument parsing to the return value / uncaught exception.        *)
(* The environment (filesystem, search path, VOICEVOX service, encoder     *)
(* subprocess) is nondeterministic; its observable side is recorded in     *)
(* http, tmpfile, outDir, procs and log.                                   *)
(***************************************************************************)
EXTENDS Integers, Sequences, FiniteSets, TLC

\* ---------------------------------------------------------------- bounds
\* speaker ids offered on the command line are 1..MaxSpeaker
MaxSpeaker == 2

\* ------------------------------------------------------------- constants
\* Retry(total=3, ...)
RetryTotal == 3

None == "None"

\* Retry(status_forcelist=(500, 502, 504))
StatusForcelist == {500, 502, 504}

\* urllib3 Retry.DEFAULT_ALLOWED_METHODS: the Retry object is built without
\* allowed_methods, so the library default applies; POST is not in it.
AllowedMethods == {"HEAD", "GET", "PUT", "DELETE", "OPTIONS", "TRACE"}

\* logging.basicConfig(level=logging.INFO)
LogLevel == "INFO"

LevelNo(l) == CASE l = "DEBUG" -> 10
                [] l = "INFO" -> 20
                [] l = "WARNING" -> 30
                [] l = "ERROR" -> 40

\* ------------------------------------------------- environment universes
\* raw --background values; "" is the empty argument
BackgroundArgs == {"bg.png", "nobg.png", ""}
\* raw --char values; None when the flag is absent
CharArgs == {None, "", "char.png", "nochar.png"}
OutArgs == {"out/result.mp4", "result.mp4"}
Topics == {"test"}
\* files that may or may not exist on disk
DiskFiles == {"bg.png", "char.png"}
\* shutil.which("ffmpeg")
WhichResults == {None, "/usr/bin/ffmpeg"}

\* final HTTP statuses the service may answer with (2xx, 4xx, 5xx)
Statuses == {200, 204, 400, 500, 502, 503, 504}
\* bodies of the audio_query response: JSON objects, or text that is no JSON
QueryBodies == {"aq1", "aq2", "notjson"}

Bytes(k, f, r) == [kind |-> k, frames |-> f, rate |-> r]
EmptyBytes == Bytes("empty", 0, 0)
NoFile == Bytes("nofile", 0, 0)
\* bodies of the synthesis response: zero bytes, non-WAV bytes, WAV files
WavBodies == {EmptyBytes, Bytes("junk", 0, 0), Bytes("wav", 44100, 44100),
              Bytes("wav", 22050, 44100), Bytes("wav", 100, 0)}
Size(b) == IF b.kind \in {"empty", "nofile"} THEN 0 ELSE 44 + b.frames

\* name chosen by tempfile.NamedTemporaryFile(prefix="yukkuri", suffix=".wav")
TmpName == "/tmp/yukkuri_rand.wav"

VARIABLES
    args,        \* parsed command line: background, char, out, voice_id, topic
    files,       \* the files existing on disk
    which,       \* what shutil.which("ffmpeg") returns
    pc,          \* position of main
    status,      \* "running", "returned" or "raised"
    exitCode,    \* process exit code once main has ended, -1 before
    bg_path, char_path, ffmpeg_cmd, aq, wav_bytes, audio_path, out_path, cmd,
    retry,       \* Retry.total left for the HTTP call in progress
    http,        \* every HTTP attempt made, in order, with how it ended
    tmpfile,     \* content of the temporary audio file, NoFile if not written
    outDir,      \* TRUE once the output directory was created
    procs,       \* encoder subprocesses started, with their return code
    log          \* records emitted by the logger, in order

vars == <<args, files, which, pc, status, exitCode, bg_path, char_path,
          ffmpeg_cmd, aq, wav_bytes, audio_path, out_path, cmd, retry, http,
          tmpfile, outDir, procs, log>>

locals == <<bg_path, char_path, ffmpeg_cmd, aq, wav_bytes, audio_path,
            out_path, cmd>>
world == <<http, tmpfile, outDir, procs>>
env == <<args, files, which>>

\* ---------------------------------------------------------------- helpers
\* str(Path(s)): the empty string becomes the current directory
PathOf(s) == IF s = "" THEN "." ELSE s

\* Path.exists()
Exists(p) == p = "." \/ p \in files

\* logger.<level>(msg, arg): dropped below the configured level
LogAt(l, level, msg, arg) ==
    IF LevelNo(level) >= LevelNo(LogLevel)
    THEN Append(l, [level |-> level, msg |-> msg, arg |-> arg])
    ELSE l

\* check_ffmpeg
check_ffmpeg_log(l) ==
    IF which = None THEN LogAt(l, "ERROR", "ffmpeg not found in PATH", None) ELSE l

check_ffmpeg == which

\* ------------------------------------------------------ HTTP client layer
\* Retry._is_method_retryable
IsMethodRetryable(method) == method \in AllowedMethods

\* Retry.is_retry: a status of the forcelist is retried for retryable methods
IsRetry(method, st) == IsMethodRetryable(method) /\ st \in StatusForcelist

\* Retry.increment / is_exhausted: total is decremented on every retry and the
\* call gives up once it drops below zero
Step(total, next) == [next |-> next, total |-> total]
Retried(total) == IF total - 1 < 0 THEN Step(total - 1, "raise")
                                   ELSE Step(total - 1, "retry")

\* One attempt of session.post under the mounted adapter: what the adapter
\* does with the way the attempt ended (o.kind, o.status).
Send(method, total, o) ==
    CASE o.kind = "connect_error" -> Retried(total)
      [] o.kind = "read_error" ->
            IF IsMethodRetryable(method) THEN Retried(total)
                                         ELSE Step(total, "raise")
      [] o.kind = "response" ->
            IF IsRetry(method, o.status) THEN Retried(total)
                                         ELSE Step(total, "return")

\* Response.raise_for_status
RaisesForStatus(st) == st >= 400 /\ st < 600

Outcome(k, st, b) == [kind |-> k, status |-> st, body |-> b]

\* the ways one attempt can end
Outcomes(bodies, nobody) ==
    {Outcome("connect_error", 0, nobody), Outcome("read_error", 0, nobody)}
    \cup {Outcome("response", st, b) : st \in Statuses, b \in bodies}

\* voicevox_audio_query, 34-35: the request it posts
AudioQueryRequest(text, speaker) ==
    [endpoint |-> "/audio_query", speaker |-> speaker, text |-> text, body |-> None]

SynthesisRequest_DefaultSpeaker(audio_query, speaker) ==
    [endpoint |-> "/synthesis", speaker |-> 1, text |-> None, body |-> audio_query]

\* voicevox_synthesis, 41-45: the request it posts
SynthesisRequest(audio_query, speaker) ==
    [endpoint |-> "/synthesis", speaker |-> speaker, text |-> None,
     body |-> audio_query]

\* one entry of http: the request as sent and how the attempt ended (kind,
\* status, answer: a tag of the response body)
Attempt(req, o, answer) ==
    [endpoint |-> req.endpoint, speaker |-> req.speaker, text |-> req.text,
     body |-> req.body, kind |-> o.kind, status |-> o.status, answer |-> answer]

\* ---------------------------------------------------------- initial state
Init ==
    /\ args \in [background : BackgroundArgs, char : CharArgs, out : OutArgs,
                 voice_id : 1..MaxSpeaker, topic : Topics]
    /\ files \in SUBSET DiskFiles
    /\ which \in WhichResults
    /\ pc = "validate"
    /\ status = "running"
    /\ exitCode = -1
    /\ bg_path = None /\ char_path = None /\ ffmpeg_cmd = None
    /\ aq = None /\ wav_bytes = NoFile /\ audio_path = None
    /\ out_path = None /\ cmd = <<>>
    /\ retry = RetryTotal
    /\ http = <<>>
    /\ tmpfile = NoFile
    /\ outDir = FALSE
    /\ procs = <<>>
    /\ log = <<>>

\* main returns code
Return(code) == status' = "returned" /\ exitCode' = code

\* an exception leaves main uncaught: the interpreter exits with status 1
Raise == status' = "raised" /\ exitCode' = 1

\* main, 112: the background check
BackgroundMissing(p) == ~Exists(p)

\* main, 115: the overlay path, None when --char is absent or empty
CharPathOf(c) == IF c \notin {None, ""} THEN PathOf(c) ELSE None

OverlayMissing_Unchecked(cp) == FALSE

\* main, 116: the overlay check
OverlayMissing(cp) == cp # None /\ ~Exists(cp)

\* ----------------------------------------------------------- main, 111-118
ValidateInputs ==
    /\ pc = "validate" /\ status = "running"
    /\ bg_path' = PathOf(args.background)
    /\ IF BackgroundMissing(PathOf(args.background))
       THEN /\ log' = LogAt(log, "ERROR", "background image not found",
                            PathOf(args.background))
            /\ Return(2)
            /\ UNCHANGED <<pc, char_path>>
       ELSE LET cp == CharPathOf(args.char)
            IN /\ char_path' = cp
               /\ IF OverlayMissing(cp)
                  THEN /\ log' = LogAt(log, "ERROR", "char image not found", cp)
                       /\ Return(2)
                       /\ UNCHANGED pc
                  ELSE /\ pc' = "check_ffmpeg"
                       /\ UNCHANGED <<status, exitCode, log>>
    /\ UNCHANGED <<env, world, ffmpeg_cmd, aq, wav_bytes, audio_path, out_path,
                   cmd, retry>>

EncoderMissing_Ignored(f) == FALSE

\* main, 120: no encoder was found
EncoderMissing(f) == f = None

\* ----------------------------------------------------------- main, 119-122
LocateEncoder ==
    /\ pc = "check_ffmpeg" /\ status = "running"
    /\ ffmpeg_cmd' = check_ffmpeg
    /\ log' = check_ffmpeg_log(log)
    /\ IF EncoderMissing(check_ffmpeg)
       THEN Return(3) /\ UNCHANGED <<pc, retry>>
       ELSE /\ pc' = "audio_query"
            /\ retry' = RetryTotal
            /\ UNCHANGED <<status, exitCode>>
    /\ UNCHANGED <<env, world, bg_path, char_path, aq, wav_bytes, audio_path,
                   out_path, cmd>>

SynthesisFailed_Swallowed ==
    /\ log' = LogAt(log, "ERROR", "Failed to synthesize audio", None)
    /\ pc' = "save_wav"
    /\ UNCHANGED <<status, exitCode, retry, aq, wav_bytes>>

\* ----------------------------------------------------------- main, 126-128
SynthesisFailed ==
    /\ log' = LogAt(log, "ERROR", "Failed to synthesize audio", None)
    /\ Return(4)
    /\ UNCHANGED <<pc, retry, aq, wav_bytes>>

\* voicevox_audio_query, one attempt of the POST and what follows it
AudioQueryAttempt ==
    /\ pc = "audio_query" /\ status = "running"
    /\ \E o \in Outcomes(QueryBodies, None) :
         LET r == Send("POST", retry, o) IN
         /\ http' = Append(http, Attempt(AudioQueryRequest(args.topic, args.voice_id),
                                         o, o.body))
         /\ CASE r.next = "retry" ->
                   /\ retry' = r.total
                   /\ UNCHANGED <<pc, status, exitCode, log, aq, wav_bytes>>
              [] r.next = "raise" -> SynthesisFailed
              [] r.next = "return" ->
                   IF RaisesForStatus(o.status) \/ o.body = "notjson"
                   THEN SynthesisFailed
                   ELSE /\ aq' = o.body
                        /\ pc' = "synthesis"
                        /\ retry' = RetryTotal
                        /\ UNCHANGED <<status, exitCode, log, wav_bytes>>
    /\ UNCHANGED <<env, tmpfile, outDir, procs, bg_path, char_path, ffmpeg_cmd,
                   audio_path, out_path, cmd>>

\* voicevox_synthesis, one attempt of the POST and what follows it
SynthesisAttempt ==
    /\ pc = "synthesis" /\ status = "running"
    /\ \E o \in Outcomes(WavBodies, NoFile) :
         LET r == Send("POST", retry, o) IN
         /\ http' = Append(http, Attempt(SynthesisRequest(aq, args.voice_id), o,
                                         o.body.kind))
         /\ CASE r.next = "retry" ->
                   /\ retry' = r.total
                   /\ UNCHANGED <<pc, status, exitCode, log, aq, wav_bytes>>
              [] r.next = "raise" -> SynthesisFailed
              [] r.next = "return" ->
                   IF RaisesForStatus(o.status)
                   THEN SynthesisFailed
                   ELSE /\ wav_bytes' = o.body
                        /\ pc' = "save_wav"
                        /\ UNCHANGED <<status, exitCode, log, aq, retry>>
    /\ UNCHANGED <<env, tmpfile, outDir, procs, bg_path, char_path, ffmpeg_cmd,
                   audio_path, out_path, cmd>>

\* ------------------------------------------------- save_wav_bytes, 48-55
SaveWav ==
    /\ pc = "save_wav" /\ status = "running"
    /\ tmpfile' = wav_bytes
    /\ audio_path' = TmpName
    /\ log' = LogAt(log, "INFO", "Saved synthesized wav to", TmpName)
    /\ pc' = "probe"
    /\ UNCHANGED <<env, http, outDir, procs, status, exitCode, bg_path,
                   char_path, ffmpeg_cmd, aq, wav_bytes, out_path, cmd, retry>>

\* get_wav_duration_seconds on a file holding b: the duration in hundredths
\* of a second, or the failure of wave.open / of the division
get_wav_duration_seconds(b) ==
    IF b.kind = "wav" /\ b.rate # 0
    THEN [ok |-> TRUE, value |-> (b.frames * 100) \div b.rate]
    ELSE [ok |-> FALSE, value |-> 0]

ProbeFailed_Fatal ==
    /\ log' = log
    /\ Raise
    /\ UNCHANGED pc

\* main, 133-134: the probe's exception is swallowed with a warning
ProbeFailed ==
    /\ log' = LogAt(log, "WARNING", "Failed to get audio duration; continuing anyway",
                    None)
    /\ pc' = "ensure_out_dir"
    /\ UNCHANGED <<status, exitCode>>

\* main, 130-134
ProbeDuration ==
    /\ pc = "probe" /\ status = "running"
    /\ LET d == get_wav_duration_seconds(tmpfile) IN
       IF d.ok
       THEN /\ log' = LogAt(log, "INFO", "Audio duration", ToString(d.value))
            /\ pc' = "ensure_out_dir"
            /\ UNCHANGED <<status, exitCode>>
       ELSE ProbeFailed
    /\ UNCHANGED <<env, world, locals, retry>>

\* main, 135-136 and ensure_out_dir: mkdir of the parent may fail (the parent
\* exists as a regular file, no permission)
EnsureOutDir ==
    /\ pc = "ensure_out_dir" /\ status = "running"
    /\ out_path' = PathOf(args.out)
    /\ \E ok \in BOOLEAN :
         IF ok
         THEN /\ outDir' = TRUE
              /\ pc' = "build_cmd"
              /\ UNCHANGED <<status, exitCode>>
         ELSE /\ Raise
              /\ UNCHANGED <<outDir, pc>>
    /\ UNCHANGED <<env, http, tmpfile, procs, log, bg_path, char_path,
                   ffmpeg_cmd, aq, wav_bytes, audio_path, cmd, retry>>

build_ffmpeg_cmd_OverlayLast(ffmpeg, bg, audio, out, char) ==
    <<ffmpeg, "-y", "-loop", "1", "-i", bg>>
    \o <<"-i", audio>>
    \o (IF char # None THEN <<"-i", char>> ELSE <<>>)
    \o (IF char # None
        THEN <<"-filter_complex", "[0:v][1:v] overlay=W-w-10:H-h-10,format=yuv420p">>
        ELSE <<"-vf", "format=yuv420p">>)
    \o <<"-c:v", "libx264", "-c:a", "aac", "-b:a", "192k", "-shortest", out>>

\* build_ffmpeg_cmd; the debug line it logs is below the configured level
build_ffmpeg_cmd(ffmpeg, bg, audio, out, char) ==
    <<ffmpeg, "-y", "-loop", "1", "-i", bg>>
    \o (IF char # None THEN <<"-i", char>> ELSE <<>>)
    \o <<"-i", audio>>
    \o (IF char # None
        THEN <<"-filter_complex", "[0:v][1:v] overlay=W-w-10:H-h-10,format=yuv420p">>
        ELSE <<"-vf", "format=yuv420p">>)
    \o <<"-c:v", "libx264", "-c:a", "aac", "-b:a", "192k", "-shortest", out>>

\* main, 137
BuildCmd ==
    /\ pc = "build_cmd" /\ status = "running"
    /\ cmd' = build_ffmpeg_cmd(ffmpeg_cmd, bg_path, audio_path, out_path, char_path)
    /\ log' = LogAt(log, "DEBUG", "FFmpeg command", out_path)
    /\ pc' = "run_ffmpeg"
    /\ UNCHANGED <<env, world, status, exitCode, bg_path, char_path, ffmpeg_cmd,
                   aq, wav_bytes, audio_path, out_path, retry>>

\* how subprocess.run can end: the process could not be started (OSError), or
\* it ran and exited with rc (negative when killed by a signal)
EncoderOutcomes ==
    {[spawned |-> FALSE, rc |-> 0]} \cup {[spawned |-> TRUE, rc |-> c] : c \in {0, 1, -9}}

run_ffmpeg_IgnoresRc(l, o) ==
    LET l1 == LogAt(l, "INFO", "Running ffmpeg...", None) IN
    IF ~o.spawned THEN [log |-> l1, raised |-> TRUE]
    ELSE [log |-> LogAt(l1, "INFO", "ffmpeg completed successfully", None),
          raised |-> FALSE]

\* run_ffmpeg: the log it leaves and whether it raises
run_ffmpeg(l, o) ==
    LET l1 == LogAt(l, "INFO", "Running ffmpeg...", None) IN
    IF ~o.spawned THEN [log |-> l1, raised |-> TRUE]
    ELSE IF o.rc # 0
         THEN [log |-> LogAt(l1, "ERROR", "ffmpeg failed", ToString(o.rc)),
               raised |-> TRUE]
         ELSE [log |-> LogAt(l1, "INFO", "ffmpeg completed successfully", None),
               raised |-> FALSE]

FinallyLog_OnSuccessOnly(l, raised) ==
    IF raised THEN l ELSE LogAt(l, "INFO", "Generated video", out_path)

\* main, 140-141: the finally clause
FinallyLog(l, raised) == LogAt(l, "INFO", "Generated video", out_path)

\* main, 138-142
RunFfmpeg ==
    /\ pc = "run_ffmpeg" /\ status = "running"
    /\ \E o \in EncoderOutcomes :
         LET r == run_ffmpeg(log, o) IN
         /\ procs' = IF o.spawned THEN Append(procs, [cmd |-> cmd, rc |-> o.rc])
                                  ELSE procs
         /\ log' = FinallyLog(r.log, r.raised)
         /\ IF r.raised
            THEN Raise /\ UNCHANGED pc
            ELSE Return(0) /\ pc' = "done"
    /\ UNCHANGED <<env, http, tmpfile, outDir, locals, retry>>

Next ==
    \/ ValidateInputs
    \/ LocateEncoder
    \/ AudioQueryAttempt
    \/ SynthesisAttempt
    \/ SaveWav
    \/ ProbeDuration
    \/ EnsureOutDir
    \/ BuildCmd
    \/ RunFfmpeg

Spec == Init /\ [][Next]_vars

\* ------------------------------------------------------------ vocabulary
Running == status = "running"
Ended == status # "running"

\* indices of the attempts made for one endpoint, and the last of them
AttemptsOf(e) == {i \in 1..Len(http) : http[i].endpoint = e}
LastOf(e) == IF AttemptsOf(e) = {} THEN 0
             ELSE CHOOSE i \in AttemptsOf(e) : \A j \in AttemptsOf(e) : j <= i

\* the position of main while it is inside the call to endpoint e
PcOf(e) == IF e = "/audio_query" THEN "audio_query" ELSE "synthesis"

\* the call to e has been left, by a return or by an exception
CallOver(e) == AttemptsOf(e) # {} /\ (Ended \/ pc # PcOf(e))

\* an attempt that was answered 2xx with a body the caller can use
Answered2xx(a) == a.kind = "response" /\ a.status >= 200 /\ a.status < 300
UsableAnswer(a) == Answered2xx(a) /\ a.answer # "notjson"

\* the call to e failed: it is over and its last attempt gave no usable answer
CallFailed(e) == CallOver(e) /\ ~UsableAnswer(http[LastOf(e)])

NoSideEffects == http = <<>> /\ tmpfile = NoFile /\ procs = <<>>

\* ---------------------------------------------------------------- claims
BadBackground == ~Exists(PathOf(args.background))
BadOverlay == args.char # None /\ ~Exists(PathOf(args.char))

\* C1: a run whose background path does not exist, or whose overlay path is
\* given and does not exist, ends with exit code 2 as soon as validation has
\* run, and never issues an HTTP request, writes the temporary audio file or
\* starts the encoder, whether or not the encoder is on the search path.
C1_MissingInputExits2 ==
    (BadBackground \/ BadOverlay) =>
        /\ NoSideEffects
        /\ Running => pc = "validate"
        /\ Ended => status = "returned" /\ exitCode = 2

C1_Witness ==
    /\ ~BadBackground /\ BadOverlay /\ which # None
    /\ status = "returned" /\ exitCode = 2

\* C2: a run whose given image paths all exist but for which no encoder is
\* found ends with exit code 3 right after encoder location, with no HTTP
\* request issued and no temporary audio file written.
C2_NoEncoderExits3 ==
    (~BadBackground /\ ~BadOverlay /\ which = None) =>
        /\ http = <<>> /\ tmpfile = NoFile
        /\ Running => pc \in {"validate", "check_ffmpeg"}
        /\ Ended => status = "returned" /\ exitCode = 3

C2_Witness ==
    /\ args.char = "char.png" /\ which = None
    /\ status = "returned" /\ exitCode = 3

Endpoints == {"/audio_query", "/synthesis"}

\* an attempt that ended in a transport failure or in a 500, 502 or 504
RetryableEnd(a) ==
    \/ a.kind \in {"connect_error", "read_error"}
    \/ a.kind = "response" /\ a.status \in {500, 502, 504}

\* C3: for each of the two calls, another attempt follows an attempt exactly
\* when that attempt ended in a transport failure or a 500/502/504 response,
\* no call makes more than 3 attempts, and any other status ends the call
\* after that single attempt.
C3_RetryPolicy ==
    \A e \in Endpoints :
        /\ Cardinality(AttemptsOf(e)) <= 3
        /\ \A i \in AttemptsOf(e) : i # LastOf(e) => RetryableEnd(http[i])
        /\ (CallOver(e) /\ RetryableEnd(http[LastOf(e)]))
               => Cardinality(AttemptsOf(e)) = 3

\* C4: once validation and encoder location have passed, a failure of the
\* audio_query call or of the synthesis call ends the run with exit code 4;
\* no temporary audio file is written, the output directory is not created
\* and the encoder is never started.
C4_SynthesisFailureExits4 ==
    (CallFailed("/audio_query") \/ CallFailed("/synthesis")) =>
        /\ status = "returned" /\ exitCode = 4
        /\ tmpfile = NoFile /\ ~outDir /\ procs = <<>>

C4_Witness ==
    /\ CallFailed("/synthesis") /\ ~CallFailed("/audio_query")
    /\ Cardinality(AttemptsOf("/synthesis")) > 1
    /\ status = "returned" /\ exitCode = 4

\* the "Generated video" records, which carry the intended output path
OutputPathLogs == {i \in 1..Len(log) : log[i].msg = "Generated video"}

\* C5: a run that reaches the encoding step has logged the intended output
\* path exactly once when main returns or raises, whatever the encoder's
\* return code; a run that ends before the encoding step never logs it, and
\* nothing logs it while main is still running.
C5_OutputPathLoggedOnce ==
    /\ \A i \in OutputPathLogs : log[i].arg = PathOf(args.out)
    /\ Running => OutputPathLogs = {}
    /\ (Ended /\ pc \in {"run_ffmpeg", "done"}) => Cardinality(OutputPathLogs) = 1
    /\ (Ended /\ pc \notin {"run_ffmpeg", "done"}) => OutputPathLogs = {}

C5_Witness ==
    /\ status = "raised" /\ pc = "run_ffmpeg"
    /\ procs # <<>> /\ procs[1].rc # 0
    /\ Cardinality(OutputPathLogs) = 1

EncoderErrorLogged == \E i \in 1..Len(log) : log[i].msg = "ffmpeg failed"

\* C6: when the encoder exits non-zero, run_ffmpeg has logged the failure and
\* raised, the error leaves main uncaught and the exit code is not 0; a run
\* ends with exit code 0 only if exactly one encoder was started and it
\* exited with return code 0.
C6_EncoderFailurePropagates ==
    /\ \A i \in 1..Len(procs) : procs[i].rc # 0 =>
           /\ EncoderErrorLogged
           /\ status = "raised" /\ exitCode # 0
    /\ (Ended /\ exitCode = 0) =>
           /\ status = "returned"
           /\ Len(procs) = 1 /\ procs[1].rc = 0

C6_Witness ==
    /\ procs # <<>> /\ procs[1].rc = -9
    /\ status = "raised" /\ EncoderErrorLogged

\* the temporary file is one on which the duration probe fails
ProbeFails == tmpfile # NoFile /\ ~get_wav_duration_seconds(tmpfile).ok
PastProbe == {"ensure_out_dir", "build_cmd", "run_ffmpeg", "done"}
ProbeWarnings ==
    {i \in 1..Len(log) : log[i].level = "WARNING"
                         /\ log[i].msg = "Failed to get audio duration; continuing anyway"}

\* the command the run is to build, whatever the probe said
ExpectedCmd ==
    build_ffmpeg_cmd(which, PathOf(args.background), TmpName, PathOf(args.out),
                     IF args.char \in {None, ""} THEN None ELSE PathOf(args.char))

\* C8: when both HTTP calls succeeded, a failing duration probe does not end
\* the run: it leaves one warning in the log and the run goes on to create
\* the output directory, build the same command and start the encoder as
\* after a successful probe, with the exit code decided by the encoder alone.
C8_ProbeFailureNonFatal ==
    /\ ProbeFails =>
           /\ ~(Ended /\ pc = "probe")
           /\ pc \in PastProbe => Cardinality(ProbeWarnings) = 1
    /\ ~ProbeFails => ProbeWarnings = {}
    /\ pc \in {"build_cmd", "run_ffmpeg", "done"} => outDir
    /\ pc \in {"run_ffmpeg", "done"} => cmd = ExpectedCmd
    /\ \A i \in 1..Len(procs) : procs[i].cmd = ExpectedCmd
    /\ (Ended /\ pc \in {"run_ffmpeg", "done"}) =>
           (exitCode = 0 <=> (procs # <<>> /\ procs[1].rc = 0))

C8_Witness ==
    /\ ProbeFails /\ tmpfile.kind = "junk"
    /\ pc = "done" /\ exitCode = 0
    /\ procs # <<>> /\ procs[1].cmd = ExpectedCmd

\* C9: whenever the composition stage (command building, encoder invocation)
\* has begun, the temporary audio file exists and is non-empty, whatever the
\* body of the successful synthesis response was.
C9_TempFileNonEmpty ==
    pc \in {"build_cmd", "run_ffmpeg", "done"} =>
        tmpfile # NoFile /\ Size(tmpfile) > 0

\* the stage of the pipeline main is in
Rank(p) == CASE p = "validate" -> 1
             [] p = "check_ffmpeg" -> 2
             [] p = "audio_query" -> 3
             [] p = "synthesis" -> 4
             [] p = "save_wav" -> 5
             [] p = "probe" -> 6
             [] p \in {"ensure_out_dir", "build_cmd"} -> 7
             [] p = "run_ffmpeg" -> 8
             [] p = "done" -> 9

\* one step of main: it stays in its stage (a retried attempt, the two halves
\* of command building, a failure exit) or enters the next one; a run that
\* has ended does not move, and Done is entered only by returning 0
StageStep ==
    /\ Running
    /\ Rank(pc') \in {Rank(pc), Rank(pc) + 1}
    /\ (pc' = pc /\ status' = "running") => pc \in {"audio_query", "synthesis"}
    /\ (status' # "running" /\ pc' # pc) => pc' = "done" /\ exitCode' = 0

\* what has happened so far fits the stage main is in
StageEffects ==
    /\ AttemptsOf("/audio_query") # {} => Rank(pc) >= 3
    /\ AttemptsOf("/synthesis") # {} => Rank(pc) >= 4
    /\ tmpfile # NoFile => Rank(pc) >= 6
    /\ outDir => Rank(pc) >= 7
    /\ cmd # <<>> => Rank(pc) >= 8
    /\ procs # <<>> => Rank(pc) >= 8 /\ Ended
    /\ Rank(pc) >= 4 => CallOver("/audio_query") /\ ~CallFailed("/audio_query")
    /\ Rank(pc) >= 5 => CallOver("/synthesis") /\ ~CallFailed("/synthesis")
    /\ Rank(pc) >= 6 => tmpfile # NoFile
    /\ Rank(pc) >= 8 => outDir /\ cmd # <<>>
    /\ pc = "done" => Len(procs) = 1 /\ status = "returned"

\* every synthesis request comes after the last audio_query attempt, which
\* was answered with a usable result, and carries that result as its body and
\* the same speaker id
SynthesisAfterQuery ==
    \A i \in AttemptsOf("/synthesis") :
        LET j == LastOf("/audio_query") IN
        /\ j > 0 /\ j < i
        /\ UsableAnswer(http[j])
        /\ http[i].body = http[j].answer
        /\ http[i].speaker = http[j].speaker
        /\ http[i].speaker = args.voice_id

\* C10: the stages of a run occur in the order validation, encoder location,
\* audio_query, synthesis, temporary file write, duration probe, command
\* building, encoder invocation, Done; none is re-entered or skipped; the
\* synthesis request is issued only after audio_query succeeded, with the
\* same speaker id and the query result as its body; at most one encoder
\* subprocess is started.
C10_StageOrder ==
    /\ [][StageStep]_vars
    /\ [](StageEffects /\ SynthesisAfterQuery /\ Len(procs) <= 1)

C10_Witness ==
    /\ pc = "done" /\ exitCode = 0
    /\ args.voice_id = 2
    /\ Cardinality(AttemptsOf("/audio_query")) > 1
    /\ Cardinality(AttemptsOf("/synthesis")) > 1

\* ------------------------------------------- build_ffmpeg_cmd on its own
FfmpegArgs == {"/usr/bin/ffmpeg", "ffmpeg"}
BgPaths == {"bg.png", ".", "assets/bg.png"}
AudioPaths == {TmpName, "voice.wav"}
OutPaths == {"out/result.mp4", "result.mp4"}
\* Optional[Path]: None, or a path (any Path object is truthy)
CharPaths == {None, "char.png", ".", "bg.png"}

InitBuild ==
    /\ ffmpeg_cmd \in FfmpegArgs
    /\ bg_path \in BgPaths
    /\ audio_path \in AudioPaths
    /\ out_path \in OutPaths
    /\ char_path \in CharPaths
    /\ cmd = <<>>
    /\ pc = "call_build"
    /\ status = "running"
    /\ exitCode = -1
    /\ args = [background |-> bg_path, char |-> char_path, out |-> out_path,
               voice_id |-> 1, topic |-> "test"]
    /\ files = {} /\ which = ffmpeg_cmd
    /\ aq = None /\ wav_bytes = NoFile
    /\ retry = RetryTotal
    /\ http = <<>> /\ tmpfile = NoFile /\ outDir = FALSE /\ procs = <<>>
    /\ log = <<>>

\* a call of build_ffmpeg_cmd with the chosen arguments
CallBuild ==
    /\ pc = "call_build"
    /\ cmd' = build_ffmpeg_cmd(ffmpeg_cmd, bg_path, audio_path, out_path, char_path)
    /\ pc' = "built"
    /\ UNCHANGED <<env, world, status, exitCode, bg_path, char_path, ffmpeg_cmd,
                   aq, wav_bytes, audio_path, out_path, retry, log>>

NextBuild == CallBuild

SpecBuild == InitBuild /\ [][NextBuild]_vars

\* the values given to "-i" in an argument sequence, in order
RECURSIVE InputsFrom(_, _)
InputsFrom(c, i) ==
    IF i >= Len(c) THEN <<>>
    ELSE IF c[i] = "-i" THEN <<c[i + 1]>> \o InputsFrom(c, i + 2)
    ELSE InputsFrom(c, i + 1)

Has(c, x) == \E i \in 1..Len(c) : c[i] = x
Follows(c, x, y) == \E i \in 1..(Len(c) - 1) : c[i] = x /\ c[i + 1] = y

\* C7: the sequence built has the overlay path as its second "-i" input,
\* between the background and the audio, and the "-filter_complex" overlay
\* filter exactly when an overlay path is given; without one it has the two
\* inputs background and audio, no "-filter_complex", and "-vf
\* format=yuv420p". The audio path is the last input in both cases.
C7_OverlayIffProvided ==
    pc = "built" =>
        LET ins == InputsFrom(cmd, 2) IN
        /\ ins[Len(ins)] = audio_path
        /\ ins[1] = bg_path
        /\ IF char_path # None
           THEN /\ ins = <<bg_path, char_path, audio_path>>
                /\ Follows(cmd, "-filter_complex",
                           "[0:v][1:v] overlay=W-w-10:H-h-10,format=yuv420p")
                /\ ~Has(cmd, "-vf")
           ELSE /\ ins = <<bg_path, audio_path>>
                /\ ~Has(cmd, "-filter_complex")
                /\ Follows(cmd, "-vf", "format=yuv420p")

C7_Witness ==
    /\ pc = "built" /\ char_path = "."
    /\ Len(InputsFrom(cmd, 2)) = 3 /\ Has(cmd, "-filter_complex")

====
